---- MODULE Spec2Model ----
(***************************************************************************)
(* Model of the preprocessor core of sv-parser-pp (preprocess.rs):         *)
(* the PreprocessedText buffer with its origin map, the include resolver   *)
(* and the event-driven driver `preprocess` with its recursion on          *)
(* includes.  A "byte" of a file is modelled as one symbol (a string);     *)
(* positions are 0-based as in the source, sequences are 1-based.          *)
(***************************************************************************)
EXTENDS Integers, Sequences, FiniteSets, TLC

\* Bound of the model: deepest nesting of preprocess calls that is explored.
MaxDepth == 4

\* ------------------------------------------------------------------------
\* Option<T>
\* ------------------------------------------------------------------------
None == <<>>

Some(x) == <<x>>

IsSome(o) == Len(o) = 1

Unwrap(o) == o[1]

\* ------------------------------------------------------------------------
\* crate::range::Range
\* ------------------------------------------------------------------------
RangeNew(b, e) == [begin |-> b, end |-> e]

RangeOffset(r, n) == [begin |-> r.begin + n, end |-> r.end + n]

\* Ord for Range: by begin, then by end.  -1 Less, 0 Equal, 1 Greater.
RangeCmp(a, b) ==
    IF a.begin < b.begin THEN -1
    ELSE IF a.begin > b.begin THEN 1
    ELSE IF a.end < b.end THEN -1
    ELSE IF a.end > b.end THEN 1
    ELSE 0

\* ------------------------------------------------------------------------
\* BTreeMap<Range, Origin>: a function whose domain is the set of keys.
\* ------------------------------------------------------------------------
BTreeNew == <<>>

BTreeKeys(m) == DOMAIN m

\* insert: a key that compares Equal to a present key keeps the present key
\* and replaces its value.
BTreeInsert(m, k, v) ==
    IF \E x \in DOMAIN m : RangeCmp(x, k) = 0
    THEN [x \in DOMAIN m |-> IF RangeCmp(x, k) = 0 THEN v ELSE m[x]]
    ELSE [x \in (DOMAIN m) \cup {k} |-> IF x = k THEN v ELSE m[x]]

\* get: the value of the key that compares Equal to q.
BTreeGet(m, q) ==
    LET hits == {x \in DOMAIN m : RangeCmp(x, q) = 0}
    IN  IF hits = {} THEN None ELSE Some(m[CHOOSE x \in hits : TRUE])

\* least key of a non-empty key set, in the order of RangeCmp
MinKey(ks) == CHOOSE k \in ks : \A x \in ks : RangeCmp(k, x) <= 0

\* ------------------------------------------------------------------------
\* PreprocessedText
\* ------------------------------------------------------------------------
NewText == [text |-> <<>>, origins |-> BTreeNew]

\* variant of push that takes the output range from 0 instead of text.len()
Push_BaseZero(pt, s, origin_path, origin_range) ==
    LET range  == RangeNew(0, Len(s))
        origin == [range |-> range, origin_path |-> origin_path,
                   origin_range |-> origin_range]
    IN  [text |-> pt.text \o s, origins |-> BTreeInsert(pt.origins, range, origin)]

Push(pt, s, origin_path, origin_range) ==
    LET base   == Len(pt.text)
        range  == RangeNew(base, base + Len(s))
        origin == [range |-> range, origin_path |-> origin_path,
                   origin_range |-> origin_range]
    IN  [text |-> pt.text \o s, origins |-> BTreeInsert(pt.origins, range, origin)]

\* variant of the loop of merge that rebases the key but not the record's range
RECURSIVE MergeOrigins_NoRangeOffset(_, _, _, _)
MergeOrigins_NoRangeOffset(m, other, ks, base) ==
    IF ks = {} THEN m
    ELSE LET k     == MinKey(ks)
             range == RangeOffset(k, base)
         IN  MergeOrigins_NoRangeOffset(BTreeInsert(m, range, other[k]),
                                        other, ks \ {k}, base)

\* the loop of merge: other's records in key order, rebased by base
RECURSIVE MergeOrigins(_, _, _, _)
MergeOrigins(m, other, ks, base) ==
    IF ks = {} THEN m
    ELSE LET k      == MinKey(ks)
             range  == RangeOffset(k, base)
             origin == [other[k] EXCEPT !.range = RangeOffset(other[k].range, base)]
         IN  MergeOrigins(BTreeInsert(m, range, origin), other, ks \ {k}, base)

\* variant of merge that reads base after the text has been appended
Merge_BaseAfterAppend(pt, other) ==
    LET base == Len(pt.text \o other.text)
    IN  [text    |-> pt.text \o other.text,
         origins |-> MergeOrigins(pt.origins, other.origins,
                                  BTreeKeys(other.origins), base)]

Merge(pt, other) ==
    LET base == Len(pt.text)
    IN  [text    |-> pt.text \o other.text,
         origins |-> MergeOrigins(pt.origins, other.origins,
                                  BTreeKeys(other.origins), base)]

\* variant of origin that adds the origin offset to the output position itself
Origin_NoRebase(pt, pos) ==
    LET origin == BTreeGet(pt.origins, RangeNew(pos, pos + 1))
    IN  IF IsSome(origin)
        THEN Some(<<Unwrap(origin).origin_path,
                    pos + Unwrap(origin).origin_range.begin>>)
        ELSE None

Origin(pt, pos) ==
    LET origin == BTreeGet(pt.origins, RangeNew(pos, pos + 1))
    IN  IF IsSome(origin)
        THEN Some(<<Unwrap(origin).origin_path,
                    pos - Unwrap(origin).range.begin
                        + Unwrap(origin).origin_range.begin>>)
        ELSE None

\* ------------------------------------------------------------------------
\* Strings and paths.  A string is a sequence of symbols; "/" separates
\* path components, a path is absolute iff it starts with "/".
\* ------------------------------------------------------------------------
RECURSIVE TrimStart(_, _)
TrimStart(s, c) ==
    IF Len(s) > 0 /\ s[1] = c THEN TrimStart(Tail(s), c) ELSE s

RECURSIVE TrimEnd(_, _)
TrimEnd(s, c) ==
    IF Len(s) > 0 /\ s[Len(s)] = c THEN TrimEnd(SubSeq(s, 1, Len(s) - 1), c) ELSE s

TrimMatches(s, c) == TrimEnd(TrimStart(s, c), c)

IsAbsolute(p) == Len(p) > 0 /\ p[1] = "/"

IsRelative(p) == ~IsAbsolute(p)

Join(root, p) ==
    IF IsAbsolute(p) THEN p
    ELSE IF Len(root) = 0 THEN p
    ELSE IF root[Len(root)] = "/" THEN root \o p
    ELSE root \o <<"/">> \o p

\* current working directory of the process
Cwd == <<"/", "cwd">>

\* the file a path denotes: relative paths are taken from the working directory
Resolve(p) == Join(Cwd, p)

\* ------------------------------------------------------------------------
\* The directive tree (sv_parser_syntaxtree) as the driver sees it.  Every
\* node has a kind, its Locate (off, len) and its children in document
\* order; a node handle is the path of child indices from the root.
\* ------------------------------------------------------------------------
N(kind, off, len, kids) ==
    [kind |-> kind, off |-> off, len |-> len, kids |-> kids,
     form |-> "", nelsif |-> 0, haselse |-> FALSE]

Root(len, kids) == N("PreprocessorText", 0, len, kids)

Txt(off, len) == N("SourceDescriptionNotDirective", off, len, <<>>)

Kw(off) == N("Keyword", off, 1, <<>>)

Id(off) == N("TextMacroIdentifier", off, 1, <<N("SimpleIdentifier", off, 1, <<>>)>>)

EscId(off) == N("TextMacroIdentifier", off, 1, <<N("EscapedIdentifier", off, 1, <<>>)>>)

\* an identifier position under which the tree holds no identifier leaf
NoId(off) == N("TextMacroIdentifier", off, 0, <<>>)

Body(kind, kids) == N(kind, 0, 0, kids)

Resetall(off) == N("ResetallCompilerDirective", off, 1, <<Kw(off)>>)

Undefineall(off) == N("UndefineallCompilerDirective", off, 1, <<Kw(off)>>)

Undefine(off, name) == N("UndefineCompilerDirective", off, 1, <<Kw(off), name>>)

Define(off, name) == N("TextMacroDefinition", off, 1, <<Kw(off), name>>)

Include(form, off, len) ==
    [N("IncludeCompilerDirective", off, 1 + len,
       <<Kw(off), N("StringLiteral", off + 1, len, <<>>)>>) EXCEPT !.form = form]

RECURSIVE Flatten(_)
Flatten(ss) == IF ss = <<>> THEN <<>> ELSE Head(ss) \o Flatten(Tail(ss))

\* x.nodes of a conditional: keyword, ifid, ifbody, (elsifid, elsifbody)*, elsebody?
IfdefNode(kind, off, ifid, ifbody, elsif, elsebody) ==
    [N(kind, off, 1, <<Kw(off), ifid, ifbody>> \o Flatten(elsif) \o elsebody)
        EXCEPT !.nelsif = Len(elsif), !.haselse = (Len(elsebody) = 1)]

Ifdef(off, ifid, ifbody, elsif, elsebody) ==
    IfdefNode("IfdefDirective", off, ifid, ifbody, elsif, elsebody)

Ifndef(off, ifid, ifbody, elsif, elsebody) ==
    IfdefNode("IfndefDirective", off, ifid, ifbody, elsif, elsebody)

\* positions of the parts of a conditional among its children
IfIdAt == 2

IfBodyAt == 3

ElsifIdAt(j) == 2 + 2 * j

ElsifBodyAt(j) == 3 + 2 * j

ElseBodyAt(n) == 4 + 2 * n.nelsif

RECURSIVE NodeAt(_, _)
NodeAt(node, h) == IF h = <<>> THEN node ELSE NodeAt(node.kids[Head(h)], Tail(h))

\* into_iter().event(): Enter before the children, Leave after them
RECURSIVE Events(_, _)
RECURSIVE KidsEvents(_, _, _)
KidsEvents(node, h, j) ==
    IF j > Len(node.kids) THEN <<>>
    ELSE Events(node.kids[j], Append(h, j)) \o KidsEvents(node, h, j + 1)

Events(node, h) ==
    <<[ev |-> "Enter", h |-> h]>> \o KidsEvents(node, h, 1) \o <<[ev |-> "Leave", h |-> h]>>

\* into_iter(): the nodes of a subtree in document order
RECURSIVE Preorder(_)
RECURSIVE KidsPreorder(_, _)
KidsPreorder(node, j) ==
    IF j > Len(node.kids) THEN <<>>
    ELSE Preorder(node.kids[j]) \o KidsPreorder(node, j + 1)

Preorder(node) == <<node>> \o KidsPreorder(node, 1)

\* Locate::str
Str(node, s) == SubSeq(s, node.off + 1, node.off + node.len)

RECURSIVE FirstIdentifier(_, _, _)
FirstIdentifier(nodes, j, s) ==
    IF j > Len(nodes) THEN None
    ELSE IF nodes[j].kind \in {"SimpleIdentifier", "EscapedIdentifier"}
         THEN Some(Str(nodes[j], s))
         ELSE FirstIdentifier(nodes, j + 1, s)

identifier(node, s) == FirstIdentifier(Preorder(node), 1, s)

\* ------------------------------------------------------------------------
\* The source files of the runs (testcases in the style of test1.sv,
\* test2.sv, test3.sv), each with the tree the directive parser returns.
\* The grave accent of a directive is written "#".
\* ------------------------------------------------------------------------
\* /cwd/test1.sv
File_test1 ==
    [src |-> <<"a0", "a1", "#ifdef", "A", "a4", "a5", "#else", "a7", "a8", "#endif", "a10">>,
     readable |-> TRUE, parses |-> TRUE,
     tree |-> Root(11, <<
        Txt(0, 2),
        Ifdef(2, Id(3),
        Body("IfdefGroupOfLines", <<Txt(4, 2)>>),
        <<>>,
        <<Body("ElseGroupOfLines", <<Txt(7, 2)>>)>>),
        Txt(10, 1)>>)]

\* /cwd/test2.sv
File_test2 ==
    [src |-> <<"b0", "b1", "#include", "\"", "test3.sv", "\"", "b6", "b7", "b8">>,
     readable |-> TRUE, parses |-> TRUE,
     tree |-> Root(9, <<
        Txt(0, 2),
        Include("DoubleQuote", 2, 3),
        Txt(6, 1),
        Txt(7, 2)>>)]

\* /inc1/test3.sv
File_inc1_test3 ==
    [src |-> <<"c0", "c1", "#include", "<", "leaf.sv", ">", "c6">>,
     readable |-> TRUE, parses |-> TRUE,
     tree |-> Root(7, <<
        Txt(0, 2),
        Include("AngleBracket", 2, 3),
        Txt(6, 1)>>)]

\* /inc2/test3.sv
File_inc2_test3 ==
    [src |-> <<"d0">>,
     readable |-> TRUE, parses |-> TRUE,
     tree |-> Root(1, <<
        Txt(0, 1)>>)]

\* /cwd/test3.sv
File_cwd_test3 ==
    [src |-> <<"e0", "e1">>,
     readable |-> TRUE, parses |-> TRUE,
     tree |-> Root(2, <<
        Txt(0, 2)>>)]

\* /inc2/leaf.sv
File_leaf ==
    [src |-> <<"#define", "B", "#undef", "A", "#ifdef", "A", "f6", "#elsif", "B", "f9", "f10", "#endif", "#resetall", "#define", "\\C", "#ifndef", "B", "f17", "#endif", "#undefineall">>,
     readable |-> TRUE, parses |-> TRUE,
     tree |-> Root(20, <<
        Define(0, Id(1)),
        Undefine(2, Id(3)),
        Ifdef(4, Id(5),
        Body("IfdefGroupOfLines", <<Txt(6, 1)>>),
        <<<<Id(8), Body("ElsifGroupOfLines", <<Txt(9, 2)>>)>>>>,
        <<>>),
        Resetall(12),
        Define(13, EscId(14)),
        Ifndef(15, Id(16),
        Body("IfndefGroupOfLines", <<Txt(17, 1)>>),
        <<>>,
        <<>>),
        Undefineall(19)>>)]

\* /cwd/scope.sv
File_scope ==
    [src |-> <<"#define", "\\C", "#undef", "A", "#include", "\"", "leaf.sv", "\"", "#ifdef", "B", "g10", "#else", "g12", "g13", "#endif", "#ifdef", "\\C", "g17", "#endif">>,
     readable |-> TRUE, parses |-> TRUE,
     tree |-> Root(19, <<
        Define(0, EscId(1)),
        Undefine(2, Id(3)),
        Include("DoubleQuote", 4, 3),
        Ifdef(8, Id(9),
        Body("IfdefGroupOfLines", <<Txt(10, 1)>>),
        <<>>,
        <<Body("ElseGroupOfLines", <<Txt(12, 2)>>)>>),
        Ifdef(15, EscId(16),
        Body("IfdefGroupOfLines", <<Txt(17, 1)>>),
        <<>>,
        <<>>)>>)]

\* /cwd/skip.sv
File_skip ==
    [src |-> <<"h0", "#ifdef", "A", "#resetall", "#undef", "B", "#undefineall", "h7", "h8", "#ifdef", "B", "h11", "#endif", "#ifndef", "B", "h15", "#endif", "#define", "\\C", "#include", "\"", "missing.sv", "\"", "#else", "h24", "#endif", "#ifdef", "\\C", "h28", "#endif", "#ifdef", "B", "h32", "h33", "#endif">>,
     readable |-> TRUE, parses |-> TRUE,
     tree |-> Root(35, <<
        Txt(0, 1),
        Ifdef(1, Id(2),
        Body("IfdefGroupOfLines", <<Resetall(3), Undefine(4, Id(5)), Undefineall(6), Txt(7, 2), Ifdef(9, Id(10),
        Body("IfdefGroupOfLines", <<Txt(11, 1)>>),
        <<>>,
        <<>>), Ifndef(13, Id(14),
        Body("IfndefGroupOfLines", <<Txt(15, 1)>>),
        <<>>,
        <<>>), Define(17, EscId(18)), Include("DoubleQuote", 19, 3)>>),
        <<>>,
        <<Body("ElseGroupOfLines", <<Txt(24, 1)>>)>>),
        Ifdef(26, EscId(27),
        Body("IfdefGroupOfLines", <<Txt(28, 1)>>),
        <<>>,
        <<>>),
        Ifdef(30, Id(31),
        Body("IfdefGroupOfLines", <<Txt(32, 2)>>),
        <<>>,
        <<>>)>>)]

\* /cwd/err.sv
File_err ==
    [src |-> <<"i0", "i1", "#include", "\"", "bad.sv", "\"", "i6">>,
     readable |-> TRUE, parses |-> TRUE,
     tree |-> Root(7, <<
        Txt(0, 2),
        Include("DoubleQuote", 2, 3),
        Txt(6, 1)>>)]

\* /cwd/bad.sv
File_bad ==
    [src |-> <<"j0">>,
     readable |-> TRUE, parses |-> FALSE,
     tree |-> Root(1, <<
        Txt(0, 1)>>)]

\* /cwd/binary.sv
File_binary ==
    [src |-> <<"k0">>,
     readable |-> FALSE, parses |-> TRUE,
     tree |-> Root(1, <<
        Txt(0, 1)>>)]

\* /cwd/err2.sv
File_err2 ==
    [src |-> <<"l0", "#ifdef", "A", "#include", "\"", "err.sv", "\"", "#else", "#include", "<", "binary.sv", ">", "#endif", "l13">>,
     readable |-> TRUE, parses |-> TRUE,
     tree |-> Root(14, <<
        Txt(0, 1),
        Ifdef(1, Id(2),
        Body("IfdefGroupOfLines", <<Include("DoubleQuote", 3, 3)>>),
        <<>>,
        <<Body("ElseGroupOfLines", <<Include("AngleBracket", 8, 3)>>)>>),
        Txt(13, 1)>>)]

\* /cwd/mal.sv
File_mal ==
    [src |-> <<"m0", "#ifdef", "A", "#undef", "#elsif", "B", "#define", "#else", "#ifndef", "m9", "#endif", "#endif", "m12">>,
     readable |-> TRUE, parses |-> TRUE,
     tree |-> Root(13, <<
        Txt(0, 1),
        Ifdef(1, Id(2),
        Body("IfdefGroupOfLines", <<Undefine(3, NoId(4))>>),
        <<<<Id(5), Body("ElsifGroupOfLines", <<Define(6, NoId(7))>>)>>>>,
        <<Body("ElseGroupOfLines", <<Ifndef(8, NoId(9),
        Body("IfndefGroupOfLines", <<Txt(9, 1)>>),
        <<>>,
        <<>>)>>)>>),
        Txt(12, 1)>>)]

\* /cwd/mal2.sv
File_mal2 ==
    [src |-> <<"n0", "#ifdef", "B", "#ifdef", "n4", "#endif", "#endif", "#ifdef", "A", "n9", "#elsif", "n11", "#endif", "n13">>,
     readable |-> TRUE, parses |-> TRUE,
     tree |-> Root(14, <<
        Txt(0, 1),
        Ifdef(1, Id(2),
        Body("IfdefGroupOfLines", <<Ifdef(3, NoId(4),
        Body("IfdefGroupOfLines", <<Txt(4, 1)>>),
        <<>>,
        <<>>)>>),
        <<>>,
        <<>>),
        Ifdef(7, Id(8),
        Body("IfdefGroupOfLines", <<Txt(9, 1)>>),
        <<<<NoId(11), Body("ElsifGroupOfLines", <<Txt(11, 1)>>)>>>>,
        <<>>),
        Txt(13, 1)>>)]

\* /cwd/self.sv
File_self ==
    [src |-> <<"o0", "#include", "\"", "self.sv", "\"", "o5">>,
     readable |-> TRUE, parses |-> TRUE,
     tree |-> Root(6, <<
        Txt(0, 1),
        Include("DoubleQuote", 1, 3),
        Txt(5, 1)>>)]

\* /cwd/ping.sv
File_ping ==
    [src |-> <<"p0", "#include", "<", "pong.sv", ">">>,
     readable |-> TRUE, parses |-> TRUE,
     tree |-> Root(5, <<
        Txt(0, 1),
        Include("AngleBracket", 1, 3)>>)]

\* /inc1/pong.sv
File_pong ==
    [src |-> <<"#include", "\"", "ping.sv", "\"", "r4">>,
     readable |-> TRUE, parses |-> TRUE,
     tree |-> Root(5, <<
        Include("DoubleQuote", 0, 3),
        Txt(4, 1)>>)]

\* /cwd/guard.sv
File_guard ==
    [src |-> <<"#ifndef", "A", "#define", "A", "s4", "#include", "\"", "guard.sv", "\"", "#endif", "s10", "s11">>,
     readable |-> TRUE, parses |-> TRUE,
     tree |-> Root(12, <<
        Ifndef(0, Id(1),
        Body("IfndefGroupOfLines", <<Define(2, Id(3)), Txt(4, 1), Include("DoubleQuote", 5, 3)>>),
        <<>>,
        <<>>),
        Txt(10, 2)>>)]

\* /cwd/res.sv
File_res ==
    [src |-> <<"#include", "\"", "/", "lib", "/", "abs.sv", "\"", "u7", "#include", "\"", "test3.sv", "\"", "u12", "u13", "#include", "<", "test3.sv", ">", "#ifdef", "B", "#include", "<", "nowhere.sv", ">", "#endif", "u25">>,
     readable |-> TRUE, parses |-> TRUE,
     tree |-> Root(26, <<
        Include("DoubleQuote", 0, 6),
        Txt(7, 1),
        Include("DoubleQuote", 8, 3),
        Txt(12, 2),
        Include("AngleBracket", 14, 3),
        Ifdef(18, Id(19),
        Body("IfdefGroupOfLines", <<Include("AngleBracket", 20, 3)>>),
        <<>>,
        <<>>),
        Txt(25, 1)>>)]

\* /lib/abs.sv
File_abs ==
    [src |-> <<"v0", "v1">>,
     readable |-> TRUE, parses |-> TRUE,
     tree |-> Root(2, <<
        Txt(0, 2)>>)]

\* /cwd/nest.sv
File_nest ==
    [src |-> <<"w0", "#ifdef", "A", "w3", "#ifndef", "B", "w6", "w7", "#define", "\\C", "#ifdef", "\\C", "w12", "#else", "w14", "#endif", "#else", "w17", "#endif", "w19", "#else", "#ifdef", "B", "w23", "#endif", "#endif", "w26">>,
     readable |-> TRUE, parses |-> TRUE,
     tree |-> Root(27, <<
        Txt(0, 1),
        Ifdef(1, Id(2),
        Body("IfdefGroupOfLines", <<Txt(3, 1), Ifndef(4, Id(5),
        Body("IfndefGroupOfLines", <<Txt(6, 2), Define(8, EscId(9)), Ifdef(10, EscId(11),
        Body("IfdefGroupOfLines", <<Txt(12, 1)>>),
        <<>>,
        <<Body("ElseGroupOfLines", <<Txt(14, 1)>>)>>)>>),
        <<>>,
        <<Body("ElseGroupOfLines", <<Txt(17, 1)>>)>>), Txt(19, 1)>>),
        <<>>,
        <<Body("ElseGroupOfLines", <<Ifdef(21, Id(22),
        Body("IfdefGroupOfLines", <<Txt(23, 1)>>),
        <<>>,
        <<>>)>>)>>),
        Txt(26, 1)>>)]

\* /cwd/chain.sv
File_chain ==
    [src |-> <<"#ifdef", "A", "#define", "B", "#ifdef", "B", "x6", "#endif", "x8", "#elsif", "B", "x11", "x12", "#elsif", "A", "x15", "#else", "x17", "#endif", "#ifndef", "A", "x21", "#elsif", "\\C", "x24", "#elsif", "B", "x27", "x28", "#else", "x30", "#endif", "#ifdef", "\\C", "x34", "#elsif", "A", "#undef", "A", "x39", "#elsif", "A", "x42", "#endif", "#ifdef", "B", "x46", "#endif">>,
     readable |-> TRUE, parses |-> TRUE,
     tree |-> Root(48, <<
        Ifdef(0, Id(1),
        Body("IfdefGroupOfLines", <<Define(2, Id(3)), Ifdef(4, Id(5),
        Body("IfdefGroupOfLines", <<Txt(6, 1)>>),
        <<>>,
        <<>>), Txt(8, 1)>>),
        <<<<Id(10), Body("ElsifGroupOfLines", <<Txt(11, 2)>>)>>, <<Id(14), Body("ElsifGroupOfLines", <<Txt(15, 1)>>)>>>>,
        <<Body("ElseGroupOfLines", <<Txt(17, 1)>>)>>),
        Ifndef(19, Id(20),
        Body("IfndefGroupOfLines", <<Txt(21, 1)>>),
        <<<<EscId(23), Body("ElsifGroupOfLines", <<Txt(24, 1)>>)>>, <<Id(26), Body("ElsifGroupOfLines", <<Txt(27, 2)>>)>>>>,
        <<Body("ElseGroupOfLines", <<Txt(30, 1)>>)>>),
        Ifdef(32, EscId(33),
        Body("IfdefGroupOfLines", <<Txt(34, 1)>>),
        <<<<Id(36), Body("ElsifGroupOfLines", <<Undefine(37, Id(38)), Txt(39, 1)>>)>>, <<Id(41), Body("ElsifGroupOfLines", <<Txt(42, 1)>>)>>>>,
        <<>>),
        Ifdef(44, Id(45),
        Body("IfdefGroupOfLines", <<Txt(46, 1)>>),
        <<>>,
        <<>>)>>)]

\* /cwd/reset.sv
File_reset ==
    [src |-> <<"#define", "A", "#resetall", "#ifdef", "A", "y5", "#endif", "#ifndef", "A", "y9", "y10", "#endif", "#ifdef", "B", "y14", "#endif", "#define", "B", "#ifdef", "B", "y20", "#endif", "#undef", "A", "#define", "A", "#undef", "B", "#ifdef", "A", "y30", "#else", "y32", "#endif", "#undefineall", "#ifndef", "A", "y37", "#endif">>,
     readable |-> TRUE, parses |-> TRUE,
     tree |-> Root(39, <<
        Define(0, Id(1)),
        Resetall(2),
        Ifdef(3, Id(4),
        Body("IfdefGroupOfLines", <<Txt(5, 1)>>),
        <<>>,
        <<>>),
        Ifndef(7, Id(8),
        Body("IfndefGroupOfLines", <<Txt(9, 2)>>),
        <<>>,
        <<>>),
        Ifdef(12, Id(13),
        Body("IfdefGroupOfLines", <<Txt(14, 1)>>),
        <<>>,
        <<>>),
        Define(16, Id(17)),
        Ifdef(18, Id(19),
        Body("IfdefGroupOfLines", <<Txt(20, 1)>>),
        <<>>,
        <<>>),
        Undefine(22, Id(23)),
        Define(24, Id(25)),
        Undefine(26, Id(27)),
        Ifdef(28, Id(29),
        Body("IfdefGroupOfLines", <<Txt(30, 1)>>),
        <<>>,
        <<Body("ElseGroupOfLines", <<Txt(32, 1)>>)>>),
        Undefineall(34),
        Ifndef(35, Id(36),
        Body("IfndefGroupOfLines", <<Txt(37, 1)>>),
        <<>>,
        <<>>)>>)]

\* /cwd/plain.sv
File_plain ==
    [src |-> <<"z0", "z1", "z2", "z3", "z4", "z5">>,
     readable |-> TRUE, parses |-> TRUE,
     tree |-> Root(6, <<
        Txt(0, 2),
        Txt(2, 1),
        Txt(3, 3)>>)]

\* the files that may be on disk, by absolute path
Disk ==
    (<<"/", "cwd", "/", "test1.sv">> :> File_test1) @@
    (<<"/", "cwd", "/", "test2.sv">> :> File_test2) @@
    (<<"/", "inc1", "/", "test3.sv">> :> File_inc1_test3) @@
    (<<"/", "inc2", "/", "test3.sv">> :> File_inc2_test3) @@
    (<<"/", "cwd", "/", "test3.sv">> :> File_cwd_test3) @@
    (<<"/", "inc2", "/", "leaf.sv">> :> File_leaf) @@
    (<<"/", "cwd", "/", "scope.sv">> :> File_scope) @@
    (<<"/", "cwd", "/", "skip.sv">> :> File_skip) @@
    (<<"/", "cwd", "/", "err.sv">> :> File_err) @@
    (<<"/", "cwd", "/", "bad.sv">> :> File_bad) @@
    (<<"/", "cwd", "/", "binary.sv">> :> File_binary) @@
    (<<"/", "cwd", "/", "err2.sv">> :> File_err2) @@
    (<<"/", "cwd", "/", "mal.sv">> :> File_mal) @@
    (<<"/", "cwd", "/", "mal2.sv">> :> File_mal2) @@
    (<<"/", "cwd", "/", "self.sv">> :> File_self) @@
    (<<"/", "cwd", "/", "ping.sv">> :> File_ping) @@
    (<<"/", "inc1", "/", "pong.sv">> :> File_pong) @@
    (<<"/", "cwd", "/", "guard.sv">> :> File_guard) @@
    (<<"/", "cwd", "/", "res.sv">> :> File_res) @@
    (<<"/", "lib", "/", "abs.sv">> :> File_abs) @@
    (<<"/", "cwd", "/", "nest.sv">> :> File_nest) @@
    (<<"/", "cwd", "/", "chain.sv">> :> File_chain) @@
    (<<"/", "cwd", "/", "reset.sv">> :> File_reset) @@
    (<<"/", "cwd", "/", "plain.sv">> :> File_plain)

FileEvents == [p \in DOMAIN Disk |-> Events(Disk[p].tree, <<>>)]

\* ------------------------------------------------------------------------
\* HashMap<String, Option<TextMacroDefinition>>: a function on its keys
\* ------------------------------------------------------------------------
HashMapNew == <<>>

ContainsKey(m, k) == k \in DOMAIN m

MapInsert(m, k, v) == [x \in (DOMAIN m) \cup {k} |-> IF x = k THEN v ELSE m[x]]

MapRemove(m, k) == [x \in (DOMAIN m) \ {k} |-> m[x]]

\* the loop that copies pre_defines into the fresh table
RECURSIVE CopyDefines(_, _, _)
CopyDefines(defines, pre_defines, ks) ==
    IF ks = {} THEN defines
    ELSE LET k == CHOOSE x \in ks : TRUE
         IN  CopyDefines(MapInsert(defines, k, pre_defines[k]), pre_defines, ks \ {k})

\* ------------------------------------------------------------------------
\* Inputs of the runs
\* ------------------------------------------------------------------------
Inc1 == <<"/", "inc1">>

Inc2 == <<"/", "inc2">>

IncludePathLists == {<<>>, <<Inc1>>, <<Inc1, Inc2>>, <<Inc2, Inc1>>}

NameA == <<"A">>

NameB == <<"B">>

PreDefineSets ==
    { HashMapNew,
      (NameA :> None),
      (NameB :> None),
      (NameA :> None) @@ (NameB :> None),
      (NameA :> Some(Define(0, Id(1)))) }

RootPaths ==
    { <<"test1.sv">>, <<"test2.sv">>, <<"scope.sv">>, <<"skip.sv">>,
      <<"err.sv">>, <<"err2.sv">>, <<"bad.sv">>, <<"missing.sv">>,
      <<"mal.sv">>, <<"mal2.sv">>, <<"self.sv">>, <<"ping.sv">>,
      <<"guard.sv">>, <<"res.sv">>, <<"/", "inc1", "/", "test3.sv">>,
      <<"nest.sv">>, <<"chain.sv">>, <<"reset.sv">>, <<"plain.sv">> }

\* the directory contents of the runs: with and without test3.sv in the
\* working directory
FileSystems == { DOMAIN Disk, (DOMAIN Disk) \ {<<"/", "cwd", "/", "test3.sv">>} }

\* ------------------------------------------------------------------------
\* State: the stack of active preprocess calls (the last one is running),
\* the outcome of the top-level call, and the inputs.
\* ------------------------------------------------------------------------
VARIABLES stack, result, path0, pre_defines0, include_paths, fs

vars == <<stack, result, path0, pre_defines0, include_paths, fs>>

\* a call that has not yet opened its file
Call(path, pre_defines) ==
    [path |-> path, pre_defines |-> pre_defines, pc |-> "open", i |-> 0,
     skip |-> FALSE, skip_nodes |-> <<>>, defines |-> HashMapNew,
     ret |-> NewText, err |-> ""]

Running == [kind |-> "Running", err |-> "", ret |-> NewText]

Ok(ret) == [kind |-> "Ok", err |-> "", ret |-> ret]

Err(e) == [kind |-> "Err", err |-> e, ret |-> NewText]

Panicked == [kind |-> "Panic", err |-> "", ret |-> NewText]

\* the nesting bound of the model is reached (the program would recurse on)
Overflow == [kind |-> "Overflow", err |-> "", ret |-> NewText]

Init ==
    /\ path0 \in RootPaths
    /\ pre_defines0 \in PreDefineSets
    /\ include_paths \in IncludePathLists
    /\ fs \in FileSystems
    /\ stack = <<Call(path0, pre_defines0)>>
    /\ result = Running

Top == stack[Len(stack)]

Exists(p) == Resolve(p) \in fs

TopFile == Disk[Resolve(Top.path)]

TopEvents == FileEvents[Resolve(Top.path)]

Active == result.kind = "Running" /\ Len(stack) > 0

Walking == Active /\ Top.pc = "walk" /\ Top.i <= Len(TopEvents)

Ev == TopEvents[Top.i]

X == NodeAt(TopFile.tree, Ev.h)

SetTop(f) == stack' = [stack EXCEPT ![Len(stack)] = f]

Inputs == <<path0, pre_defines0, include_paths, fs>>

\* .unwrap() on None: the panic unwinds every call
Panic == result' = Panicked /\ stack' = <<>> /\ UNCHANGED Inputs

\* variant of the match guard that ignores skip
Guard_Always(skip) == TRUE

\* the match guard `if !skip`
Guard(skip) == ~skip

GuardedKinds ==
    {"ResetallCompilerDirective", "UndefineCompilerDirective",
     "UndefineallCompilerDirective", "SourceDescriptionNotDirective",
     "IfdefDirective", "IfndefDirective", "TextMacroDefinition",
     "IncludeCompilerDirective"}

\* the arm Enter(RefNode::<kind>(x)) if !skip is the one that matches
Arm(kind) == Walking /\ Ev.ev = "Enter" /\ X.kind = kind /\ Guard(Top.skip)

\* File::open, read_to_string, pp_parser and the initialisation of the locals
Open ==
    /\ Active /\ Top.pc = "open"
    /\ IF ~Exists(Top.path) \/ ~TopFile.readable
       THEN SetTop([Top EXCEPT !.pc = "err", !.err = "Io"])
       ELSE IF ~TopFile.parses
       THEN SetTop([Top EXCEPT !.pc = "err", !.err = "Parse"])
       ELSE SetTop([Top EXCEPT !.pc = "walk", !.i = 1, !.skip = FALSE,
                               !.skip_nodes = <<>>,
                               !.defines = CopyDefines(HashMapNew, Top.pre_defines,
                                                       DOMAIN Top.pre_defines),
                               !.ret = NewText])
    /\ UNCHANGED <<result, Inputs>>

\* variant of resetall that goes back to the predefines instead of clearing
ResetallCompilerDirective_KeepsPredefines ==
    /\ Arm("ResetallCompilerDirective")
    /\ SetTop([Top EXCEPT !.defines = Top.pre_defines, !.i = @ + 1])
    /\ UNCHANGED <<result, Inputs>>

ResetallCompilerDirective ==
    /\ Arm("ResetallCompilerDirective")
    /\ SetTop([Top EXCEPT !.defines = HashMapNew, !.i = @ + 1])
    /\ UNCHANGED <<result, Inputs>>

UndefineCompilerDirective ==
    /\ Arm("UndefineCompilerDirective")
    /\ LET id == identifier(X.kids[2], TopFile.src)
       IN  IF ~IsSome(id) THEN Panic
           ELSE /\ SetTop([Top EXCEPT !.defines = MapRemove(@, Unwrap(id)), !.i = @ + 1])
                /\ UNCHANGED <<result, Inputs>>

UndefineallCompilerDirective ==
    /\ Arm("UndefineallCompilerDirective")
    /\ SetTop([Top EXCEPT !.defines = HashMapNew, !.i = @ + 1])
    /\ UNCHANGED <<result, Inputs>>

SourceDescriptionNotDirective ==
    /\ Arm("SourceDescriptionNotDirective")
    /\ LET range == RangeNew(X.off, X.off + X.len)
       IN  SetTop([Top EXCEPT !.ret = Push(@, Str(X, TopFile.src), Top.path, range),
                              !.i = @ + 1])
    /\ UNCHANGED <<result, Inputs>>

\* variant of the loop over elsif that decides every elsif by its own test
RECURSIVE ElsifLoop_IgnoresHit(_, _, _, _, _, _, _)
ElsifLoop_IgnoresHit(x, h, s, defines, j, hit, skip_nodes) ==
    IF j > x.nelsif THEN [hit |-> hit, skip_nodes |-> skip_nodes]
    ELSE LET elsifid   == Unwrap(identifier(x.kids[ElsifIdAt(j)], s))
             elsifbody == Append(h, ElsifBodyAt(j))
         IN  IF ContainsKey(defines, elsifid)
             THEN ElsifLoop_IgnoresHit(x, h, s, defines, j + 1, TRUE, skip_nodes)
             ELSE ElsifLoop_IgnoresHit(x, h, s, defines, j + 1, hit,
                                       Append(skip_nodes, elsifbody))

\* the loop over elsif: [hit, skip_nodes] after the elsifs j, j+1, ...
RECURSIVE ElsifLoop(_, _, _, _, _, _, _)
ElsifLoop(x, h, s, defines, j, hit, skip_nodes) ==
    IF j > x.nelsif THEN [hit |-> hit, skip_nodes |-> skip_nodes]
    ELSE LET elsifid   == Unwrap(identifier(x.kids[ElsifIdAt(j)], s))
             elsifbody == Append(h, ElsifBodyAt(j))
         IN  IF hit
             THEN ElsifLoop(x, h, s, defines, j + 1, hit, Append(skip_nodes, elsifbody))
             ELSE IF ContainsKey(defines, elsifid)
             THEN ElsifLoop(x, h, s, defines, j + 1, TRUE, skip_nodes)
             ELSE ElsifLoop(x, h, s, defines, j + 1, hit, Append(skip_nodes, elsifbody))

\* variant of the else part that never schedules the else body
ElsePart_Never(x, h, hit, skip_nodes) == skip_nodes

\* if let Some(elsebody): pushed when a branch before it was taken
ElsePart(x, h, hit, skip_nodes) ==
    IF x.haselse /\ hit THEN Append(skip_nodes, Append(h, ElseBodyAt(x)))
    ELSE skip_nodes

\* one of the identifier(..).unwrap() calls of a conditional finds None
ChainUnwrapFails(x, s) ==
    \/ ~IsSome(identifier(x.kids[IfIdAt], s))
    \/ \E j \in 1..x.nelsif : ~IsSome(identifier(x.kids[ElsifIdAt(j)], s))

\* skip_nodes after the arm, given the outcome of the first test
Chain(x, h, s, defines, skip_nodes, first) ==
    LET sn0  == IF first THEN skip_nodes ELSE Append(skip_nodes, Append(h, IfBodyAt))
        loop == ElsifLoop(x, h, s, defines, 1, first, sn0)
    IN  ElsePart(x, h, loop.hit, loop.skip_nodes)

\* variant of the Ifdef arm without the guard `if !skip`
IfdefDirective_Unguarded ==
    /\ Walking /\ Ev.ev = "Enter" /\ X.kind = "IfdefDirective"
    /\ IF ChainUnwrapFails(X, TopFile.src) THEN Panic
       ELSE LET ifid == Unwrap(identifier(X.kids[IfIdAt], TopFile.src))
                hit  == ContainsKey(Top.defines, ifid)
            IN  /\ SetTop([Top EXCEPT
                     !.skip_nodes = Chain(X, Ev.h, TopFile.src, Top.defines, @, hit),
                     !.i = @ + 1])
                /\ UNCHANGED <<result, Inputs>>

IfdefDirective ==
    /\ Arm("IfdefDirective")
    /\ IF ChainUnwrapFails(X, TopFile.src) THEN Panic
       ELSE LET ifid == Unwrap(identifier(X.kids[IfIdAt], TopFile.src))
                hit  == ContainsKey(Top.defines, ifid)
            IN  /\ SetTop([Top EXCEPT
                     !.skip_nodes = Chain(X, Ev.h, TopFile.src, Top.defines, @, hit),
                     !.i = @ + 1])
                /\ UNCHANGED <<result, Inputs>>

IfndefDirective ==
    /\ Arm("IfndefDirective")
    /\ IF ChainUnwrapFails(X, TopFile.src) THEN Panic
       ELSE LET ifid == Unwrap(identifier(X.kids[IfIdAt], TopFile.src))
                hit  == ~ContainsKey(Top.defines, ifid)
            IN  /\ SetTop([Top EXCEPT
                     !.skip_nodes = Chain(X, Ev.h, TopFile.src, Top.defines, @, hit),
                     !.i = @ + 1])
                /\ UNCHANGED <<result, Inputs>>

\* variant of the define arm that drops the bodies scheduled for skipping
TextMacroDefinition_ForgetsSchedule ==
    /\ Arm("TextMacroDefinition")
    /\ LET id == identifier(X.kids[2], TopFile.src)
       IN  IF ~IsSome(id) THEN Panic
           ELSE /\ SetTop([Top EXCEPT !.defines = MapInsert(@, Unwrap(id), Some(X)),
                                      !.skip_nodes = <<>>,
                                      !.i = @ + 1])
                /\ UNCHANGED <<result, Inputs>>

TextMacroDefinition ==
    /\ Arm("TextMacroDefinition")
    /\ LET id == identifier(X.kids[2], TopFile.src)
       IN  IF ~IsSome(id) THEN Panic
           ELSE /\ SetTop([Top EXCEPT !.defines = MapInsert(@, Unwrap(id), Some(X)),
                                      !.i = @ + 1])
                /\ UNCHANGED <<result, Inputs>>

\* the filename of the directive, without its delimiters
IncludeLiteral(x, s) ==
    LET str == Str(x.kids[2], s)
    IN  IF x.form = "DoubleQuote" THEN TrimMatches(str, "\"")
        ELSE TrimEnd(TrimStart(str, "<"), ">")

\* the loop over include_paths, from the j-th
RECURSIVE Probe(_, _, _, _)
Probe(path, paths, j, files) ==
    IF j > Len(paths) THEN path
    ELSE LET new_path == Join(paths[j], path)
         IN  IF Resolve(new_path) \in files THEN new_path
             ELSE Probe(path, paths, j + 1, files)

\* variant of the resolver that probes the search paths before the path as given
IncludePath_PathsFirst(path, paths, files) ==
    IF IsRelative(path) THEN Probe(path, paths, 1, files) ELSE path

IncludePath(path, paths, files) ==
    IF IsRelative(path) /\ Resolve(path) \notin files
    THEN Probe(path, paths, 1, files)
    ELSE path

\* the arm up to the recursive call: the callee becomes the running call
IncludeCompilerDirective ==
    /\ Arm("IncludeCompilerDirective")
    /\ IF Len(stack) >= MaxDepth
       THEN result' = Overflow /\ UNCHANGED <<stack, Inputs>>
       ELSE LET path == IncludePath(IncludeLiteral(X, TopFile.src), include_paths, fs)
            IN  /\ stack' = Append([stack EXCEPT ![Len(stack)].pc = "call"],
                                   Call(path, Top.defines))
                /\ UNCHANGED <<result, Inputs>>

\* Enter(x) of every other node, and of the nodes above while skip is set
EnterOther ==
    /\ Walking /\ Ev.ev = "Enter"
    /\ ~(X.kind \in GuardedKinds /\ Guard(Top.skip))
    /\ SetTop([Top EXCEPT
         !.skip = IF \E j \in 1..Len(Top.skip_nodes) : Top.skip_nodes[j] = Ev.h
                  THEN TRUE ELSE @,
         !.i = @ + 1])
    /\ UNCHANGED <<result, Inputs>>

\* variant of the Leave arm that never clears skip
Leave_NoClear ==
    /\ Walking /\ Ev.ev = "Leave"
    /\ SetTop([Top EXCEPT !.i = @ + 1])
    /\ UNCHANGED <<result, Inputs>>

\* variant of the Leave arm that clears skip whatever node is left
Leave_ClearsAlways ==
    /\ Walking /\ Ev.ev = "Leave"
    /\ SetTop([Top EXCEPT !.skip = FALSE, !.i = @ + 1])
    /\ UNCHANGED <<result, Inputs>>

Leave ==
    /\ Walking /\ Ev.ev = "Leave"
    /\ SetTop([Top EXCEPT
         !.skip = IF \E j \in 1..Len(Top.skip_nodes) : Top.skip_nodes[j] = Ev.h
                  THEN FALSE ELSE @,
         !.i = @ + 1])
    /\ UNCHANGED <<result, Inputs>>

AtEnd == Active /\ Top.pc = "walk" /\ Top.i > Len(TopEvents)

\* variant of the return from an include that hands the callee's table back
IncludeReturn_Propagate ==
    /\ AtEnd /\ Len(stack) > 1
    /\ LET caller == stack[Len(stack) - 1]
       IN  stack' = [SubSeq(stack, 1, Len(stack) - 1) EXCEPT ![Len(stack) - 1] =
                        [caller EXCEPT !.ret = Merge(@, Top.ret), !.pc = "walk",
                                       !.defines = Top.defines, !.i = @ + 1]]
    /\ UNCHANGED <<result, Inputs>>

\* Ok(ret) of an included file: the caller's arm goes on with ret.merge(include)
IncludeReturn ==
    /\ AtEnd /\ Len(stack) > 1
    /\ LET caller == stack[Len(stack) - 1]
       IN  stack' = [SubSeq(stack, 1, Len(stack) - 1) EXCEPT ![Len(stack) - 1] =
                        [caller EXCEPT !.ret = Merge(@, Top.ret), !.pc = "walk",
                                       !.i = @ + 1]]
    /\ UNCHANGED <<result, Inputs>>

\* variant of the error return in which the caller drops the include and goes on
IncludeError_Swallow ==
    /\ Active /\ Top.pc = "err" /\ Len(stack) > 1
    /\ LET caller == stack[Len(stack) - 1]
       IN  stack' = [SubSeq(stack, 1, Len(stack) - 1) EXCEPT ![Len(stack) - 1] =
                        [caller EXCEPT !.pc = "walk", !.i = @ + 1]]
    /\ UNCHANGED <<result, Inputs>>

\* Err(e) of an included file: the `?` of the caller's arm returns it
IncludeError ==
    /\ Active /\ Top.pc = "err" /\ Len(stack) > 1
    /\ LET caller == stack[Len(stack) - 1]
       IN  stack' = [SubSeq(stack, 1, Len(stack) - 1) EXCEPT ![Len(stack) - 1] =
                        [caller EXCEPT !.pc = "err", !.err = Top.err]]
    /\ UNCHANGED <<result, Inputs>>

\* Ok(ret) of the top-level call
Finish ==
    /\ AtEnd /\ Len(stack) = 1
    /\ result' = Ok(Top.ret)
    /\ stack' = <<>>
    /\ UNCHANGED Inputs

\* Err(e) of the top-level call
Fail ==
    /\ Active /\ Top.pc = "err" /\ Len(stack) = 1
    /\ result' = Err(Top.err)
    /\ stack' = <<>>
    /\ UNCHANGED Inputs

Next ==
    \/ Open
    \/ ResetallCompilerDirective
    \/ UndefineCompilerDirective
    \/ UndefineallCompilerDirective
    \/ SourceDescriptionNotDirective
    \/ IfdefDirective
    \/ IfndefDirective
    \/ TextMacroDefinition
    \/ IncludeCompilerDirective
    \/ EnterOther
    \/ Leave
    \/ IncludeReturn
    \/ IncludeError
    \/ Finish
    \/ Fail

Spec == Init /\ [][Next]_vars

\* the program is sequential: a call that can take a step takes it
FairSpec == Spec /\ WF_vars(Next)

\* ========================================================================
\* Properties
\* ========================================================================

\* the buffers that exist in a state: the locals `ret` of the calls that
\* have started, and the text the top-level call returned
Buffers ==
    {stack[i].ret : i \in {k \in 1..Len(stack) : stack[k].pc \in {"walk", "call"}}}
        \cup (IF result.kind = "Ok" THEN {result.ret} ELSE {})

\* the values returned by preprocess calls: the Ok of the top-level call and
\* the Ok an included file is about to hand to its caller
CallResults ==
    (IF result.kind = "Ok" THEN {result.ret} ELSE {})
        \cup (IF AtEnd THEN {Top.ret} ELSE {})

\* the records of pt whose range contains pos
Containing(pt, pos) ==
    {k \in DOMAIN pt.origins :
        pt.origins[k].range.begin <= pos /\ pos < pt.origins[k].range.end}

\* C1: in every buffer built by push and merge, origin(pos) is, for every
\* pos below text.len(), the rebased position in the record whose range
\* contains pos (also strictly inside a multi-byte range) and none when no
\* record contains pos.
C1_OriginFindsContaining ==
    \A pt \in Buffers : \A pos \in 0..(Len(pt.text) - 1) :
        IF Containing(pt, pos) = {} THEN Origin(pt, pos) = None
        ELSE \E k \in Containing(pt, pos) :
                Origin(pt, pos) =
                    Some(<<pt.origins[k].origin_path,
                           pos - pt.origins[k].range.begin
                               + pt.origins[k].origin_range.begin>>)

\* byte q of the file that path f denotes
HasByte(f, q) == Resolve(f) \in DOMAIN Disk /\ q < Len(Disk[Resolve(f)].src)

ByteAt(f, q) == Disk[Resolve(f)].src[q + 1]

\* C2: in every result of preprocess, origin(p) = (f, q) implies that byte q
\* of file f is text[p], for every output position p.
C2_OriginReadsSameByte ==
    \A pt \in CallResults : \A p \in 0..(Len(pt.text) - 1) :
        LET o == Origin(pt, p)
        IN  IsSome(o) =>
                /\ HasByte(Unwrap(o)[1], Unwrap(o)[2])
                /\ ByteAt(Unwrap(o)[1], Unwrap(o)[2]) = pt.text[p + 1]

\* a result with conditionals and nested includes, in which a byte of a file
\* included from an included file has an origin
C2_Witness ==
    /\ result.kind = "Ok" /\ path0 = <<"test2.sv">>
    /\ \E p \in 1..(Len(result.ret.text) - 1) :
          /\ IsSome(Origin(result.ret, p))
          /\ Unwrap(Origin(result.ret, p))[1] = <<"/", "inc2", "/", "leaf.sv">>
          /\ Unwrap(Origin(result.ret, p))[2] > 0

\* the bytes of the SourceText leaves of a subtree, in document order
RECURSIVE LeavesText(_, _, _)
LeavesText(nodes, j, s) ==
    IF j > Len(nodes) THEN <<>>
    ELSE (IF nodes[j].kind = "SourceDescriptionNotDirective"
          THEN Str(nodes[j], s) ELSE <<>>) \o LeavesText(nodes, j + 1, s)

LeafText(node, s) == LeavesText(Preorder(node), 1, s)

\* text, one ifdef X / else / endif whose bodies hold text only, text
IsSingleIfdefElse(t) ==
    /\ Len(t.kids) = 3
    /\ t.kids[1].kind = "SourceDescriptionNotDirective"
    /\ t.kids[3].kind = "SourceDescriptionNotDirective"
    /\ t.kids[2].kind = "IfdefDirective"
    /\ t.kids[2].nelsif = 0 /\ t.kids[2].haselse
    /\ \A b \in {IfBodyAt, ElseBodyAt(t.kids[2])} :
          \A j \in 1..Len(t.kids[2].kids[b].kids) :
              t.kids[2].kids[b].kids[j].kind = "SourceDescriptionNotDirective"

SingleIfdefElseRun ==
    /\ Resolve(path0) \in fs
    /\ Disk[Resolve(path0)].readable /\ Disk[Resolve(path0)].parses
    /\ IsSingleIfdefElse(Disk[Resolve(path0)].tree)

\* C3: a source with a single ifdef X / else / endif preprocesses to the
\* text before, the else body when X is not a key of predefines and the if
\* body when it is (whatever X is mapped to), and the text after endif.
C3_SingleIfdefElse ==
    (SingleIfdefElseRun /\ result.kind # "Running") =>
        LET f  == Disk[Resolve(path0)]
            c  == f.tree.kids[2]
            x  == Str(c.kids[IfIdAt], f.src)
            b  == IF x \in DOMAIN pre_defines0 THEN IfBodyAt ELSE ElseBodyAt(c)
        IN  /\ result.kind = "Ok"
            /\ result.ret.text = LeafText(f.tree.kids[1], f.src)
                                    \o LeafText(c.kids[b], f.src)
                                    \o LeafText(f.tree.kids[3], f.src)

\* the run of such a source with X predefined without a definition value
C3_Witness ==
    /\ SingleIfdefElseRun /\ result.kind = "Ok"
    /\ LET f == Disk[Resolve(path0)]
           x == Str(f.tree.kids[2].kids[IfIdAt], f.src)
       IN  x \in DOMAIN pre_defines0 /\ pre_defines0[x] = None

\* ------------------------------------------------------------------------
\* Reference reading of a compilation unit: the surviving SourceText bytes
\* in depth-first document order, each as (file, offset), with every
\* non-skipped include replaced by the reading of the included file.
\* ------------------------------------------------------------------------

\* the filename between the delimiters of an include directive
Filename(x, s) == SubSeq(Str(x.kids[2], s), 2, Len(Str(x.kids[2], s)) - 1)

\* the resolution order of the include resolver
ResolvedInclude(filename, paths, files) ==
    LET roots == {j \in 1..Len(paths) : Resolve(Join(paths[j], filename)) \in files}
    IN  IF IsAbsolute(filename) THEN filename
        ELSE IF Resolve(filename) \in files THEN filename
        ELSE IF roots # {}
             THEN Join(paths[CHOOSE j \in roots : \A k \in roots : j <= k], filename)
             ELSE filename

\* the child of a conditional that is selected under a macro table, 0 if none
SelectedBody(x, s, defines) ==
    LET ifid  == Str(x.kids[IfIdAt], s)
        first == IF x.kind = "IfdefDirective" THEN ifid \in DOMAIN defines
                 ELSE ifid \notin DOMAIN defines
        hits  == {j \in 1..x.nelsif : Str(x.kids[ElsifIdAt(j)], s) \in DOMAIN defines}
    IN  IF first THEN IfBodyAt
        ELSE IF hits # {}
             THEN ElsifBodyAt(CHOOSE j \in hits : \A k \in hits : j <= k)
             ELSE IF x.haselse THEN ElseBodyAt(x) ELSE 0

\* a conditional all of whose identifier positions hold an identifier
WellFormedChain(x) ==
    \A c \in {IfIdAt} \cup {ElsifIdAt(j) : j \in 1..x.nelsif} : Len(x.kids[c].kids) = 1

RECURSIVE ReadNodes(_, _, _, _, _)
RECURSIVE ReadNode(_, _, _, _)
ReadNodes(nodes, j, path, st, depth) ==
    IF j > Len(nodes) \/ ~st.ok THEN st
    ELSE ReadNodes(nodes, j + 1, path, ReadNode(nodes[j], path, st, depth), depth)

ReadNode(x, path, st, depth) ==
    LET s == Disk[Resolve(path)].src
    IN  CASE x.kind = "SourceDescriptionNotDirective" ->
               [st EXCEPT !.out = @ \o [k \in 1..x.len |-> <<path, x.off + k - 1>>]]
          [] x.kind \in {"ResetallCompilerDirective", "UndefineallCompilerDirective"} ->
               [st EXCEPT !.defines = <<>>]
          [] x.kind = "UndefineCompilerDirective" ->
               IF Len(x.kids[2].kids) = 0 THEN [st EXCEPT !.ok = FALSE]
               ELSE [st EXCEPT !.defines =
                        [n \in (DOMAIN @) \ {Str(x.kids[2], s)} |-> @[n]]]
          [] x.kind = "TextMacroDefinition" ->
               IF Len(x.kids[2].kids) = 0 THEN [st EXCEPT !.ok = FALSE]
               ELSE [st EXCEPT !.defines = (Str(x.kids[2], s) :> Some(x)) @@ @]
          [] x.kind \in {"IfdefDirective", "IfndefDirective"} ->
               IF ~WellFormedChain(x) THEN [st EXCEPT !.ok = FALSE]
               ELSE LET b == SelectedBody(x, s, st.defines)
                    IN  IF b = 0 THEN st
                        ELSE ReadNodes(x.kids[b].kids, 1, path, st, depth)
          [] x.kind = "IncludeCompilerDirective" ->
               LET p == ResolvedInclude(Filename(x, s), include_paths, fs)
               IN  IF \/ depth >= MaxDepth
                      \/ Resolve(p) \notin fs
                      \/ ~Disk[Resolve(p)].readable
                      \/ ~Disk[Resolve(p)].parses
                   THEN [st EXCEPT !.ok = FALSE]
                   ELSE LET sub == ReadNodes(Disk[Resolve(p)].tree.kids, 1, p,
                                       [ok |-> TRUE, defines |-> st.defines, out |-> <<>>],
                                       depth + 1)
                        IN  [st EXCEPT !.ok = sub.ok, !.out = @ \o sub.out]
          [] OTHER -> st

\* the reading of the root file of the run
Reading ==
    ReadNodes(Disk[Resolve(path0)].tree.kids, 1, path0,
              [ok |-> TRUE, defines |-> pre_defines0, out |-> <<>>], 1)

\* C4: the output is the surviving SourceText leaves in depth-first document
\* order with the output of every non-skipped include inlined at its
\* directive, and every output byte maps (through origin) to its own file and
\* offset: the including file before and after an include, the included file
\* for the inlined bytes.
C4_DocumentOrderAndOrigins ==
    result.kind = "Ok" =>
        /\ Reading.ok
        /\ Len(result.ret.text) = Len(Reading.out)
        /\ \A p \in 0..(Len(result.ret.text) - 1) :
              /\ result.ret.text[p + 1] = ByteAt(Reading.out[p + 1][1], Reading.out[p + 1][2])
              /\ Origin(result.ret, p) = Some(Reading.out[p + 1])

\* the node of the event that the call in frame f is at
NodeOf(f) ==
    NodeAt(Disk[Resolve(f.path)].tree, FileEvents[Resolve(f.path)][f.i].h)

\* the node of the event that the running call has just passed
Passed ==
    NodeAt(TopFile.tree, TopEvents[Top.i - 1].h)

\* C5: while skip is true, the Enter of a ResetAll, Undefine, UndefineAll,
\* SourceText, Ifdef, Ifndef, MacroDefinition or Include node leaves the
\* macro table, the output buffer and skip_nodes unchanged; no file is
\* resolved or read for the Include, so nothing fails and no call starts.
C5_SkippedEventsHaveNoEffect ==
    [][ (Walking /\ Top.skip /\ Ev.ev = "Enter" /\ X.kind \in GuardedKinds) =>
            /\ result' = result
            /\ Len(stack') = Len(stack)
            /\ stack'[Len(stack)].pc = "walk"
            /\ stack'[Len(stack)].defines = Top.defines
            /\ stack'[Len(stack)].ret = Top.ret
            /\ stack'[Len(stack)].skip_nodes = Top.skip_nodes ]_vars

\* an Include of a file that does not exist has been passed in a skipped region
C5_Witness ==
    /\ Active /\ Top.pc = "walk" /\ Top.i > 1 /\ Top.skip
    /\ TopEvents[Top.i - 1].ev = "Enter"
    /\ Passed.kind = "IncludeCompilerDirective"
    /\ ~Exists(ResolvedInclude(Filename(Passed, TopFile.src), include_paths, fs))

\* C6: an included file starts from a copy of the caller's macro table as it
\* stands at the include directive; the table of every caller is the same
\* after each step of the included file and after its return; the
\* predefines argument of no call is ever modified.
C6_IncludeScope ==
    [][ /\ pre_defines0' = pre_defines0
        /\ \A i \in 1..Len(stack) :
              i <= Len(stack') => stack'[i].pre_defines = stack[i].pre_defines
        /\ \A i \in 1..(Len(stack) - 1) :
              i <= Len(stack') => stack'[i].defines = stack[i].defines
        /\ Len(stack') = Len(stack) + 1 =>
              stack'[Len(stack')].pre_defines = Top.defines
        /\ (Active /\ Top.pc = "open" /\ Len(stack') = Len(stack)
                /\ stack'[Len(stack)].pc = "walk") =>
              stack'[Len(stack)].defines = Top.pre_defines ]_vars

\* an include whose file defined B has returned to a caller whose table is
\* not empty and does not hold B
C6_Witness ==
    /\ Active /\ Top.pc = "walk" /\ Top.i > 1 /\ ~Top.skip
    /\ TopEvents[Top.i - 1].ev = "Enter"
    /\ Passed.kind = "IncludeCompilerDirective"
    /\ Filename(Passed, TopFile.src) = <<"leaf.sv">>
    /\ Top.defines # HashMapNew
    /\ NameB \notin DOMAIN Top.defines
    /\ Len(Top.ret.text) > 0

\* the failure of the prologue of the running call, "" if it succeeds
OpenFailure ==
    IF ~Exists(Top.path) \/ ~TopFile.readable THEN "Io"
    ELSE IF ~TopFile.parses THEN "Parse" ELSE ""

\* C7: a failure (open or read error, parse failure, failure of a non-skipped
\* include at any depth) is handed from call to call unchanged up to the
\* top-level call, which returns it; no caller processes a further event or
\* merges text on the way, and no PreprocessedText is returned.
C7_ErrorsShortCircuit ==
    [][ /\ (Active /\ Top.pc = "open" /\ OpenFailure # "") =>
              /\ Len(stack') = Len(stack)
              /\ stack'[Len(stack)] = [Top EXCEPT !.pc = "err", !.err = OpenFailure]
        /\ (Active /\ Top.pc = "err" /\ Len(stack) = 1) =>
              /\ stack' = <<>>
              /\ result' = [kind |-> "Err", err |-> Top.err, ret |-> NewText]
        /\ (Active /\ Top.pc = "err" /\ Len(stack) > 1) =>
              /\ result' = result
              /\ Len(stack') = Len(stack) - 1
              /\ stack'[Len(stack')] =
                    [stack[Len(stack) - 1] EXCEPT !.pc = "err", !.err = Top.err]
              /\ \A i \in 1..(Len(stack) - 2) : stack'[i] = stack[i] ]_vars

\* the parse failure of a file included from an included file has become the
\* result of the top-level call, which had emitted text before
C7_Witness ==
    /\ result.kind = "Err" /\ result.err = "Parse"
    /\ path0 = <<"err2.sv">>

\* the running call is at a non-skipped directive whose identifier
\* extraction finds neither a SimpleIdentifier nor an EscapedIdentifier
MalformedHere ==
    /\ Walking /\ Ev.ev = "Enter" /\ ~Top.skip
    /\ \/ /\ X.kind \in {"UndefineCompilerDirective", "TextMacroDefinition"}
          /\ identifier(X.kids[2], TopFile.src) = None
       \/ /\ X.kind \in {"IfdefDirective", "IfndefDirective"}
          /\ \E c \in {IfIdAt} \cup {ElsifIdAt(j) : j \in 1..X.nelsif} :
                identifier(X.kids[c], TopFile.src) = None

\* C8: when identifier extraction finds no identifier in a non-skipped
\* Undefine, Ifdef, Ifndef, elsif or MacroDefinition, the call fails with a
\* parse error value (Err), like every other failure of the driver.
C8_MalformedIsParseError ==
    [][ MalformedHere =>
            /\ Len(stack') = Len(stack)
            /\ stack'[Len(stack)].pc = "err"
            /\ stack'[Len(stack)].err = "Parse" ]_vars

\* C9: the path an include is preprocessed with is the filename itself when
\* it is absolute, else the filename itself when it exists as given, else
\* join(root, filename) for the first search-path root under which it
\* exists, else the filename itself, and then the include fails with an I/O
\* error; the form of the directive (quoted, angle-bracketed) plays no role.
C9_IncludeResolution ==
    \A i \in 2..Len(stack) :
        LET c    == stack[i - 1]
            name == Filename(NodeOf(c), Disk[Resolve(c.path)].src)
        IN  /\ stack[i].path = ResolvedInclude(name, include_paths, fs)
            /\ (/\ IsRelative(name) /\ Resolve(name) \notin fs
                /\ \A j \in 1..Len(include_paths) :
                      Resolve(Join(include_paths[j], name)) \notin fs) =>
                  /\ stack[i].path = name
                  /\ stack[i].pc \in {"open", "err"}
                  /\ stack[i].pc = "err" => stack[i].err = "Io"

\* an included file is being walked that was found under the second
\* search-path root, the first root not holding it
C9_Witness ==
    /\ Len(stack) >= 2 /\ Len(include_paths) = 2 /\ Top.pc = "walk"
    /\ LET c    == stack[Len(stack) - 1]
           name == Filename(NodeOf(c), Disk[Resolve(c.path)].src)
       IN  /\ IsRelative(name) /\ Resolve(name) \notin fs
           /\ Resolve(Join(include_paths[1], name)) \notin fs
           /\ Top.path = Join(include_paths[2], name)

\* C10: include nesting is bounded by cycle detection: the include of a file
\* that is already being preprocessed by an enclosing call ends with an
\* error, so that file is never walked a second time under itself.
C10_CyclicIncludeEndsWithError ==
    \A i \in 1..Len(stack) : \A j \in (i + 1)..Len(stack) :
        Resolve(stack[i].path) = Resolve(stack[j].path) =>
            stack[j].pc \in {"open", "err"}

IsPrefix(a, b) == Len(a) <= Len(b) /\ SubSeq(b, 1, Len(a)) = a

\* the running call is at a non-skipped directive of one of the given kinds
\* and its identifier extraction succeeds
AtDirective(kinds) ==
    /\ Walking /\ Ev.ev = "Enter" /\ ~Top.skip /\ X.kind \in kinds /\ ~MalformedHere

\* C11: the buffer of every call is append-only: after each step the text
\* before it is a prefix of the text after it and origin(p) is the same for
\* every position p emitted before; define, undef, resetall and undefineall
\* change neither text nor origins.
C11_AppendOnly ==
    [][ /\ \A i \in 1..Len(stack) :
              (i <= Len(stack') /\ stack[i].pc \in {"walk", "call"}) =>
                  /\ IsPrefix(stack[i].ret.text, stack'[i].ret.text)
                  /\ \A p \in 0..(Len(stack[i].ret.text) - 1) :
                        Origin(stack'[i].ret, p) = Origin(stack[i].ret, p)
        /\ AtDirective({"TextMacroDefinition", "UndefineCompilerDirective",
                        "ResetallCompilerDirective", "UndefineallCompilerDirective"}) =>
              /\ Len(stack') = Len(stack)
              /\ stack'[Len(stack)].ret = Top.ret ]_vars

\* text has been pushed after an earlier single-byte record that origin finds
C11_Witness ==
    /\ Active /\ Top.pc = "walk" /\ Top.i > 1
    /\ TopEvents[Top.i - 1].ev = "Enter"
    /\ Passed.kind = "SourceDescriptionNotDirective" /\ ~Top.skip
    /\ Len(Top.ret.text) > Passed.len
    /\ IsSome(Origin(Top.ret, 0))

\* C12: a non-skipped resetall or undefineall leaves the macro table empty,
\* predefines included; a non-skipped undef of X removes X only and nothing
\* when X is absent; a name enters the table only by a non-skipped define of
\* it; and a chain entered while X is not in the table schedules the if body
\* of `ifdef X` for skipping and does not schedule that of `ifndef X`.
C12_ResetAndUndef ==
    [][ /\ AtDirective({"ResetallCompilerDirective", "UndefineallCompilerDirective"}) =>
              DOMAIN stack'[Len(stack)].defines = {}
        /\ AtDirective({"UndefineCompilerDirective"}) =>
              LET id == Str(X.kids[2], TopFile.src)
              IN  /\ DOMAIN stack'[Len(stack)].defines = (DOMAIN Top.defines) \ {id}
                  /\ \A n \in DOMAIN stack'[Len(stack)].defines :
                        stack'[Len(stack)].defines[n] = Top.defines[n]
        /\ (Walking /\ Len(stack') = Len(stack)) =>
              (DOMAIN stack'[Len(stack)].defines) \ (DOMAIN Top.defines) \subseteq
                  (IF AtDirective({"TextMacroDefinition"})
                   THEN {Str(X.kids[2], TopFile.src)} ELSE {})
        /\ (AtDirective({"IfdefDirective", "IfndefDirective"})
                /\ Str(X.kids[IfIdAt], TopFile.src) \notin DOMAIN Top.defines) =>
              LET sn == stack'[Len(stack)].skip_nodes
              IN  (X.kind = "IfdefDirective") <=>
                      (\E j \in 1..Len(sn) : sn[j] = Append(Ev.h, IfBodyAt)) ]_vars

\* after a resetall, `ifdef X` of a predefined X has been passed and its if
\* body is scheduled for skipping
C12_Witness ==
    /\ Active /\ Top.pc = "walk" /\ Top.i > 1 /\ ~Top.skip
    /\ TopEvents[Top.i - 1].ev = "Enter"
    /\ Passed.kind = "IfdefDirective"
    /\ Top.path = <<"reset.sv">>
    /\ Str(Passed.kids[IfIdAt], TopFile.src) \in DOMAIN Top.pre_defines
    /\ Top.defines = HashMapNew
    /\ \E j \in 1..Len(Top.skip_nodes) :
          Top.skip_nodes[j] = Append(TopEvents[Top.i - 1].h, IfBodyAt)

\* the bytes of the reference reading of the run
ReadingText ==
    [p \in 1..Len(Reading.out) |-> ByteAt(Reading.out[p][1], Reading.out[p][2])]

\* some byte of the leaf is in the text the run returned
Emitted(leaf) ==
    \E p \in 1..Len(result.ret.text) :
        result.ret.text[p] = Disk[Resolve(path0)].src[leaf.off + 1]

\* text, `ifdef X` whose if body is text, `ifndef Y` ... endif, text
IsIfdefAroundIfndef(t) ==
    /\ Len(t.kids) >= 2
    /\ t.kids[2].kind = "IfdefDirective"
    /\ Len(t.kids[2].kids[IfBodyAt].kids) = 3
    /\ t.kids[2].kids[IfBodyAt].kids[2].kind = "IfndefDirective"
    /\ t.kids[2].kids[IfBodyAt].kids[3].kind = "SourceDescriptionNotDirective"
    /\ t.kids[2].kids[IfBodyAt].kids[2].kids[IfBodyAt].kids[1].kind
          = "SourceDescriptionNotDirective"

\* C13: with conditionals nested to any depth the output holds exactly the
\* SourceText leaves all of whose enclosing bodies are the selected branch
\* of their chain; for an outer `ifdef A` around an inner `ifndef B` the
\* inner body is emitted iff A is defined and B is not, and the text of the
\* outer body after the inner endif iff A is defined.
C13_NestedConditionals ==
    result.kind = "Ok" =>
        /\ Reading.ok
        /\ result.ret.text = ReadingText
        /\ IsIfdefAroundIfndef(Disk[Resolve(path0)].tree) =>
              LET f     == Disk[Resolve(path0)]
                  outer == f.tree.kids[2]
                  inner == outer.kids[IfBodyAt].kids[2]
                  a     == Str(outer.kids[IfIdAt], f.src)
                  b     == Str(inner.kids[IfIdAt], f.src)
              IN  /\ Emitted(inner.kids[IfBodyAt].kids[1]) <=>
                        (a \in DOMAIN pre_defines0 /\ b \notin DOMAIN pre_defines0)
                  /\ Emitted(outer.kids[IfBodyAt].kids[3]) <=> a \in DOMAIN pre_defines0

\* the run of an `ifdef A` around an `ifndef B` with both A and B defined:
\* the inner body is skipped inside the selected outer body
C13_Witness ==
    /\ result.kind = "Ok"
    /\ Resolve(path0) \in fs
    /\ IsIfdefAroundIfndef(Disk[Resolve(path0)].tree)
    /\ DOMAIN pre_defines0 = {NameA, NameB}
    /\ Emitted(Disk[Resolve(path0)].tree.kids[2].kids[IfBodyAt].kids[3])

\* a tree that holds SourceText leaves only
IsPlain(t) ==
    /\ Len(t.kids) > 0
    /\ \A j \in 1..Len(t.kids) : t.kids[j].kind = "SourceDescriptionNotDirective"

\* C14: a file without directives preprocesses to its source bytes, and
\* origin(p) = (path, p) for every p below text.len().
C14_PlainFileIdentity ==
    (result.kind = "Ok" /\ IsPlain(Disk[Resolve(path0)].tree)) =>
        /\ result.ret.text = Disk[Resolve(path0)].src
        /\ \A p \in 0..(Len(result.ret.text) - 1) :
              Origin(result.ret, p) = Some(<<path0, p>>)

\* the members of a Vec of node handles
Members(v) == {v[j] : j \in 1..Len(v)}

\* the children of a conditional that are its bodies
Bodies(x) ==
    {IfBodyAt} \cup {ElsifBodyAt(j) : j \in 1..x.nelsif}
        \cup (IF x.haselse THEN {ElseBodyAt(x)} ELSE {})

\* C15: a chain entered with skip false leaves at most one of its bodies
\* unscheduled, exactly one when it has an else body, and that body is the
\* first whose test succeeds: defined(id) for Ifdef and not defined(id) for
\* Ifndef on the if body, defined(elsifid) on every elsif body of both
\* kinds, and the else body only when no test before it succeeded.
C15_ChainSelectsFirstHit ==
    [][ AtDirective({"IfdefDirective", "IfndefDirective"}) =>
            LET sn       == Members(stack'[Len(stack)].skip_nodes)
                unmarked == {b \in Bodies(X) : Append(Ev.h, b) \notin sn}
                selected == SelectedBody(X, TopFile.src, Top.defines)
            IN  /\ Len(stack') = Len(stack)
                /\ Cardinality(unmarked) <= 1
                /\ X.haselse => Cardinality(unmarked) = 1
                /\ unmarked = (IF selected = 0 THEN {} ELSE {selected}) ]_vars

\* an Ifndef chain with two elsifs and an else has been passed whose second
\* elsif is the first test that succeeds
C15_Witness ==
    /\ Active /\ Top.pc = "walk" /\ Top.i > 1 /\ ~Top.skip
    /\ TopEvents[Top.i - 1].ev = "Enter"
    /\ Passed.kind = "IfndefDirective"
    /\ Passed.nelsif = 2 /\ Passed.haselse
    /\ SelectedBody(Passed, TopFile.src, Top.defines) = ElsifBodyAt(2)
    /\ Append(TopEvents[Top.i - 1].h, ElsifBodyAt(2)) \notin Members(Top.skip_nodes)

\* the handles of the root, ..., h
Prefixes(h) == {SubSeq(h, 1, k) : k \in 0..Len(h)}

\* the nodes whose subtree the call in frame f is in: entered and not yet left
OpenNodes(f) ==
    IF f.i <= 1 THEN {}
    ELSE LET e == FileEvents[Resolve(f.path)][f.i - 1]
         IN  IF e.ev = "Enter" THEN Prefixes(e.h) ELSE Prefixes(e.h) \ {e.h}

\* C16: at every point of the walk of every call, skip is true iff the
\* position lies in the subtree of some node of skip_nodes; in particular
\* skip is false when the event stream is exhausted.
C16_SkipIffInsideScheduled ==
    \A i \in 1..Len(stack) :
        stack[i].pc \in {"walk", "call"} =>
            /\ stack[i].skip <=> (OpenNodes(stack[i]) \cap Members(stack[i].skip_nodes) # {})
            /\ stack[i].i > Len(FileEvents[Resolve(stack[i].path)]) => ~stack[i].skip

\* the walk is at a descendant of a scheduled body, under skip
C16_Witness ==
    /\ Active /\ Top.pc = "walk" /\ Top.i > 1 /\ Top.skip
    /\ TopEvents[Top.i - 1].ev = "Enter"
    /\ TopEvents[Top.i - 1].h \notin Members(Top.skip_nodes)
    /\ Passed.kind = "IfdefDirective"

\* the origin bytes that the records of pt give for pos
Sources(pt, pos) ==
    {<<pt.origins[k].origin_path,
       pos - pt.origins[k].range.begin + pt.origins[k].origin_range.begin>> :
        k \in Containing(pt, pos)}

\* C17: merge rebases without loss: when an include returns, with base the
\* caller's text.len() before, the caller's text is its old text followed by
\* the included text, origin(p) is unchanged for p < base, and
\* origin(base + p) is the included buffer's origin(p) for every p below the
\* included text.len(); the record containing a position names the same
\* origin byte before and after, and no record of either buffer is lost.
C17_MergeRebases ==
    [][ (AtEnd /\ Len(stack) > 1) =>
            LET self  == stack[Len(stack) - 1].ret
                other == Top.ret
                base  == Len(self.text)
                new   == stack'[Len(stack) - 1].ret
            IN  /\ Len(stack') = Len(stack) - 1
                /\ new.text = self.text \o other.text
                /\ \A p \in 0..(base - 1) :
                      /\ Origin(new, p) = Origin(self, p)
                      /\ Sources(new, p) = Sources(self, p)
                /\ \A p \in 0..(Len(other.text) - 1) :
                      /\ Origin(new, base + p) = Origin(other, p)
                      /\ Sources(new, base + p) = Sources(other, p)
                /\ Cardinality(DOMAIN new.origins)
                      = Cardinality(DOMAIN self.origins)
                          + Cardinality(DOMAIN other.origins) ]_vars

\* an include has returned into a caller that had text: behind the caller's
\* text origin finds a byte of another file, at a lower position of that file
C17_Witness ==
    /\ Active /\ Top.pc = "walk" /\ Top.i > 1 /\ ~Top.skip
    /\ TopEvents[Top.i - 1].ev = "Enter"
    /\ Passed.kind = "IncludeCompilerDirective"
    /\ \E p \in 1..(Len(Top.ret.text) - 1) :
          /\ \E q \in 0..(p - 1) :
                /\ IsSome(Origin(Top.ret, q))
                /\ Unwrap(Origin(Top.ret, q))[1] = Top.path
          /\ IsSome(Origin(Top.ret, p))
          /\ Unwrap(Origin(Top.ret, p))[1] # Top.path
          /\ Unwrap(Origin(Top.ret, p))[2] < p

\* C18: in every buffer the driver builds, every key of the origin map is
\* the range of its record, the ranges are pairwise disjoint (so ascending
\* in key order), each range is as long as its origin_range, and the ranges
\* cover [0, text.len()) without a gap.
C18_OriginsWellFormed ==
    \A pt \in Buffers :
        /\ \A k \in DOMAIN pt.origins :
              /\ pt.origins[k].range = k
              /\ k.begin <= k.end /\ k.end <= Len(pt.text)
              /\ k.end - k.begin
                    = pt.origins[k].origin_range.end - pt.origins[k].origin_range.begin
        /\ \A a \in DOMAIN pt.origins : \A b \in DOMAIN pt.origins :
              a # b => (a.end <= b.begin \/ b.end <= a.begin)
        /\ \A a \in DOMAIN pt.origins : \A b \in DOMAIN pt.origins :
              RangeCmp(a, b) < 0 => a.end <= b.begin
        /\ \A p \in 0..(Len(pt.text) - 1) : Containing(pt, p) # {}

\* a returned buffer with records of three files, merged at two depths
C18_Witness ==
    /\ result.kind = "Ok"
    /\ Cardinality({result.ret.origins[k].origin_path : k \in DOMAIN result.ret.origins}) >= 3
    /\ Cardinality(DOMAIN result.ret.origins) >= 5

\* the frames that are walking or waiting for an include, before and after
\* a step
Kept == {i \in 1..Len(stack) : i <= Len(stack') /\ stack[i].pc \in {"walk", "call"}}

\* C19: skip regions never nest: a node is appended to skip_nodes only while
\* skip is false; no member of skip_nodes is a descendant of another member;
\* every Enter of a member happens with skip false; at the Leave of a member
\* that member is the only member still open, so the Leave clears no other
\* member's skip.
C19_SkipRegionsNeverNest ==
    /\ [][ \A i \in Kept :
              stack'[i].skip_nodes # stack[i].skip_nodes => ~stack[i].skip ]_vars
    /\ [](\A i \in 1..Len(stack) :
              stack[i].pc \in {"walk", "call"} =>
                  LET f  == stack[i]
                      sn == Members(f.skip_nodes)
                      es == FileEvents[Resolve(f.path)]
                  IN  /\ \A a \in sn : \A b \in sn : a # b => ~IsPrefix(a, b)
                      /\ (f.i <= Len(es) /\ es[f.i].h \in sn) =>
                            IF es[f.i].ev = "Enter" THEN ~f.skip
                            ELSE f.skip /\ OpenNodes(f) \cap sn = {es[f.i].h})

\* the walk is at the Leave of a scheduled body that lies inside the selected
\* body of another chain, with a second scheduled body of the same depth
C19_Witness ==
    /\ Walking /\ Ev.ev = "Leave" /\ Top.skip
    /\ Ev.h \in Members(Top.skip_nodes)
    /\ Len(Ev.h) > 2
    /\ \E m \in Members(Top.skip_nodes) : m # Ev.h /\ Len(m) < Len(Ev.h)

\* the output of chain.sv when A alone is predefined
ChainTextWithA == <<"x6", "x8", "x27", "x28", "x39", "x46">>

\* C20: the selection of a chain is fixed when its directive is entered:
\* skip_nodes of a call changes only at the Enter of an Ifdef or Ifndef that
\* is not skipped, only by appending bodies of that node, and no define,
\* undef, resetall or include changes it afterwards; in chain.sv with A
\* predefined the body of `elsif B` (x11 x12) after `define B` in the selected
\* body is never emitted, while the later chains see B.
C20_SelectionFixedAtEntry ==
    /\ [][ \A i \in Kept :
              /\ IsPrefix(stack[i].skip_nodes, stack'[i].skip_nodes)
              /\ stack'[i].skip_nodes # stack[i].skip_nodes =>
                    /\ i = Len(stack) /\ Walking /\ Ev.ev = "Enter" /\ ~Top.skip
                    /\ X.kind \in {"IfdefDirective", "IfndefDirective"}
                    /\ \A j \in (Len(stack[i].skip_nodes) + 1)..Len(stack'[i].skip_nodes) :
                          /\ Len(stack'[i].skip_nodes[j]) = Len(Ev.h) + 1
                          /\ IsPrefix(Ev.h, stack'[i].skip_nodes[j]) ]_vars
    /\ []((/\ result.kind = "Ok" /\ path0 = <<"chain.sv">>
           /\ DOMAIN pre_defines0 = {NameA})
             => result.ret.text = ChainTextWithA)

\* `define B` has just run inside the selected body of a chain whose
\* `elsif B` body is scheduled for skipping
C20_Witness ==
    /\ Active /\ Top.pc = "walk" /\ Top.i > 1 /\ ~Top.skip
    /\ TopEvents[Top.i - 1].ev = "Enter"
    /\ Passed.kind = "TextMacroDefinition"
    /\ NameB \in DOMAIN Top.defines
    /\ \E m \in Members(Top.skip_nodes) :
          LET h == SubSeq(m, 1, Len(m) - 1)
              x == NodeAt(TopFile.tree, h)
          IN  /\ IsPrefix(h, TopEvents[Top.i - 1].h)
              /\ \E j \in 1..x.nelsif :
                    /\ m[Len(m)] = ElsifBodyAt(j)
                    /\ identifier(x.kids[ElsifIdAt(j)], TopFile.src) = Some(NameB)

====
